---------------------------- MODULE Spec2Model ----------------------------
(***************************************************************************)
(* A model of sheets_agent.py: the three spreadsheet tools (add_sheet,     *)
(* delete_sheet, list_sheets), their exception handlers, and the command   *)
(* line session loop that threads the message history between turns.       *)
(*                                                                         *)
(* The remote spreadsheet is the sequence `sheets`; a tool call is one     *)
(* action; a turn of the session is a read of a line, the tool calls the   *)
(* agent runtime makes, and the print of the turn's result.                *)
(***************************************************************************)
EXTENDS Integers, Sequences, FiniteSets, TLC

\* ------------------------------------------------------------------ bounds
\* The session loop is unbounded: the model stops reading non-exit lines
\* after MaxTurns turns, and the runtime stops calling tools after MaxCalls
\* calls in a session.  Sheet identifiers are drawn from 1..MaxSheetId.
MaxTurns == 2
MaxCalls == 3
MaxSheetId == 2

\* ------------------------------------------------------- program constants
\* @sheets_agent.tool(retries=2)
TOOL_RETRIES == 2

SPREADSHEET_ID == "1PS0vkTA3spWI1AxepP3zhfztt1ps_xw2SeZVA_gjyL0"

\* ------------------------------------------------------------ input domains
\* Sheet titles the model draws tool arguments from.
Names == {"X", "Y"}

\* What an .execute() of the spreadsheet client may do: succeed, or raise
\* ssl.SSLError (the transient transport failure) or HttpError.
Failures == {"none", "SSLError", "HttpError"}

\* The Structured Results the agent runtime may produce for a turn.
Results == {[request_status |-> TRUE, result_details |-> "done"],
            [request_status |-> FALSE, result_details |-> "failed"]}

EXIT == <<"e", "x", "i", "t">>

\* Lines the user may type, as sequences of characters.
Lines == {EXIT,
          <<"E", "x", "i", "T">>,
          <<" ", "l", "s", " ">>}

InitialSheets == {<< >>,
                  <<[properties |-> [sheetId |-> 1, title |-> "X"]]>>,
                  <<[properties |-> [sheetId |-> 1, title |-> "X"]],
                    [properties |-> [sheetId |-> 2, title |-> "Y"]]>>}

VARIABLES
    sheets,         \* the remote spreadsheet: its sheets, in the service's order
    deps,           \* SheetsDependencies built at line 144
    pc,             \* where the session is
    turn,           \* completed turns
    prompt,         \* the line read last
    run,            \* the arguments of the run_sync in progress (or made last)
    response,       \* the value run_sync returned last
    stdout,         \* what the session loop printed, one entry per print
    current_retry,  \* the runtime's retry counter of each tool
    ncalls,         \* tool calls made in the session
    lastCall,       \* the tool call made last: arguments, requests, outcome
    prevCall,       \* a summary of the tool call before it
    completed,      \* the turns completed so far, in order
    nreads,         \* lines read from standard input
    nruns,          \* run_sync calls made
    escaped         \* the exception that ended the session, if any

vars == <<sheets, deps, pc, turn, prompt, run, response, stdout, current_retry,
          ncalls, lastCall, prevCall, completed, nreads, nruns, escaped>>


\* ---------------------------------------------------------- text helpers
\* str.lower() on the characters the model's lines are made of.
LowerChar(c) ==
    CASE c = "E" -> "e"
      [] c = "X" -> "x"
      [] c = "I" -> "i"
      [] c = "T" -> "t"
      [] OTHER -> c

Lower(line) == [i \in 1..Len(line) |-> LowerChar(line[i])]

RECURSIVE LStrip(_)
LStrip(line) ==
    IF line # << >> /\ Head(line) = " " THEN LStrip(Tail(line)) ELSE line

RECURSIVE RStrip(_)
RStrip(line) ==
    IF line # << >> /\ line[Len(line)] = " "
    THEN RStrip(SubSeq(line, 1, Len(line) - 1))
    ELSE line

\* str.strip()
Strip(line) == RStrip(LStrip(line))

\* A plausible slip: the comparison without .lower().
IsExitSentinelCaseSensitive(line) == line = EXIT

\* prompt.lower() == 'exit'
IsExitSentinel(line) == Lower(line) = EXIT

\* ----------------------------------------------------- Python exceptions
\* The names an except clause of the program lists, and the classes raised.
\* ssl.SSL_ERROR_SSL is a member of the enum ssl.SSLErrorNumber, an integer:
\* it is no exception class.
ExceptionClasses == {"BaseException", "Exception", "OSError", "SSLError",
                     "HttpError", "UnexpectedModelBehavior", "ModelRetry",
                     "TypeError", "SystemExit"}

\* The classes an exception of class exc is an instance of.
Bases(exc) ==
    CASE exc = "SSLError" -> {"SSLError", "OSError", "Exception", "BaseException"}
      [] exc = "HttpError" -> {"HttpError", "Exception", "BaseException"}
      [] OTHER -> {exc, "BaseException"}

\* One except clause against a raised exception: every listed name must be
\* an exception class, else the match itself raises TypeError.
ExceptMatch(types, exc) ==
    IF \E t \in types : t \notin ExceptionClasses THEN "TypeError"
    ELSE IF \E t \in types : t \in Bases(exc) THEN "match"
    ELSE "nomatch"

\* The except clauses of a try statement, tried in order: the index of the
\* clause that handles exc, 0 when none does (exc propagates), -1 when
\* matching a clause raises TypeError.
RECURSIVE Dispatch(_, _, _)
Dispatch(clauses, exc, i) ==
    IF i > Len(clauses) THEN 0
    ELSE LET m == ExceptMatch(clauses[i], exc)
         IN  IF m = "match" THEN i
             ELSE IF m = "TypeError" THEN -1
             ELSE Dispatch(clauses, exc, i + 1)

Return(type, value) == [kind |-> "return", type |-> type, value |-> value]
Raise(exc, value) == [kind |-> "raise", type |-> exc, value |-> value]

ErrorString(exc) == <<"An error occurred: ", exc>>
RetryMessage(exc) == <<"An error occurred: ", exc, ". Please try again.">>
CannotCatch == <<"catching classes that do not inherit from BaseException is not allowed">>

\* What a try statement with these clauses and bodies does with exc.
\* bodies[i] is "return" (return the error string) or "retry" (raise
\* ModelRetry).
Handle(clauses, bodies, exc) ==
    LET d == Dispatch(clauses, exc, 1)
    IN  IF d = -1 THEN Raise("TypeError", CannotCatch)
        ELSE IF d = 0 THEN Raise(exc, <<exc>>)
        ELSE IF bodies[d] = "return" THEN Return("str", ErrorString(exc))
        ELSE Raise("ModelRetry", RetryMessage(exc))

\* except (Exception, UnexpectedModelBehavior): return the string;
\* except ssl.SSL_ERROR_SSL: raise ModelRetry.   (add_sheet, delete_sheet)
MutatingToolHandlers(exc) ==
    Handle(<<{"Exception", "UnexpectedModelBehavior"}, {"SSL_ERROR_SSL"}>>,
           <<"return", "retry">>, exc)

\* except (Exception, ssl.SSL_ERROR_SSL): raise ModelRetry.   (list_sheets)
ListToolHandlers(exc) ==
    Handle(<<{"Exception", "SSL_ERROR_SSL"}>>, <<"retry">>, exc)

\* ------------------------------------------------- the spreadsheet service
\* spreadsheets().get(...).execute(): the metadata of the spreadsheet.  A
\* spreadsheet without sheets may come back without the 'sheets' key.
Get(sh, omit) ==
    IF sh = << >> /\ omit
    THEN [spreadsheetId |-> SPREADSHEET_ID]
    ELSE [spreadsheetId |-> SPREADSHEET_ID, sheets |-> sh]

\* dict.get(key, default)
DictGet(d, key, default) == IF key \in DOMAIN d THEN d[key] ELSE default

\* One structural change applied to the sheet list.
ApplyRequest(sh, req, newId) ==
    IF "addSheet" \in DOMAIN req
    THEN Append(sh, [properties |-> [sheetId |-> newId,
                                     title |-> req.addSheet.properties.title]])
    ELSE SelectSeq(sh, LAMBDA s : s.properties.sheetId # req.deleteSheet.sheetId)

RECURSIVE ApplyRequests(_, _, _)
ApplyRequests(sh, reqs, newId) ==
    IF reqs = << >> THEN sh
    ELSE ApplyRequests(ApplyRequest(sh, Head(reqs), newId), Tail(reqs), newId)

\* spreadsheets().batchUpdate(...).execute(): the sheet list afterwards.
BatchUpdate(sh, body, newId) == ApplyRequests(sh, body.requests, newId)

\* The confirmation batchUpdate returns.
BatchUpdateResponse(body) ==
    [spreadsheetId |-> SPREADSHEET_ID, replies |-> Len(body.requests)]

\* Whether the metadata may lack the 'sheets' key: only when there are none.
OmitChoices(sh) == IF sh = << >> THEN BOOLEAN ELSE {FALSE}

\* What delete_sheet's batchUpdate may do: it is only called when the get
\* succeeded and a sheet titled name was found.
UpdateFailures(sh, name, failGet) ==
    IF failGet = "none" /\ \E i \in 1..Len(sh) : sh[i].properties.title = name
    THEN Failures
    ELSE {"none"}

\* Identifiers the service may give a new sheet.
FreshIds(sh) ==
    {i \in 1..MaxSheetId : \A k \in 1..Len(sh) : sh[k].properties.sheetId # i}

\* ------------------------------------------------------------- the tools
\* A tool call yields: the sheet list afterwards, the batch-update bodies it
\* sent, what it returned or raised, and the seconds it slept.
ToolResult(sh, reqs, out, slept) ==
    [sheets |-> sh, reqs |-> reqs, out |-> out, slept |-> slept]

\* A plausible slip: the title quoted, so every sheet is named "sheet_name".
AddSheetBodyLiteralTitle(sheet_name) ==
    [requests |-> <<[addSheet |-> [properties |-> [title |-> "sheet_name"]]]>>]

\* request_body of add_sheet
AddSheetBody(sheet_name) ==
    [requests |-> <<[addSheet |-> [properties |-> [title |-> sheet_name]]]>>]

\* add_sheet(ctx, sheet_name); fail is what batchUpdate's execute() does,
\* newId the identifier the service gives the sheet.
add_sheet(sh, sheet_name, fail, newId) ==
    LET request_body == AddSheetBody(sheet_name)
    IN  IF fail = "none"
        THEN ToolResult(BatchUpdate(sh, request_body, newId), <<request_body>>,
                        Return("dict", BatchUpdateResponse(request_body)), 1)
        ELSE ToolResult(sh, <<request_body>>, MutatingToolHandlers(fail), 0)

\* A plausible slip: the scan without its break, so the last match wins.
ScanForTitleNoBreak(list, sheet_name) ==
    LET hits == {i \in 1..Len(list) : list[i].properties.title = sheet_name}
    IN  IF hits = {} THEN 0 ELSE CHOOSE i \in hits : \A j \in hits : j <= i

\* The for loop of delete_sheet: the position of the first sheet whose title
\* is sheet_name, 0 when the loop ends without a match (sheet_id stays None).
ScanForTitle(list, sheet_name) ==
    LET hits == {i \in 1..Len(list) : list[i].properties.title = sheet_name}
    IN  IF hits = {} THEN 0 ELSE CHOOSE i \in hits : \A j \in hits : i <= j

NotFoundMessage(sheet_name) ==
    <<"Sheet ", sheet_name, " is already deleted or does not exist">>

\* request_body of delete_sheet
DeleteSheetBody(sheet_id) ==
    [requests |-> <<[deleteSheet |-> [sheetId |-> sheet_id]]>>]

\* A plausible slip: no `if sheet_id is None` guard, so a delete request for
\* None is sent, which the service refuses.
delete_sheet_unguarded(sh, sheet_name, failGet, omit, failUpdate) ==
    IF failGet # "none"
    THEN ToolResult(sh, << >>, MutatingToolHandlers(failGet), 0)
    ELSE LET list == DictGet(Get(sh, omit), "sheets", << >>)
             found == ScanForTitle(list, sheet_name)
         IN  IF found = 0
             THEN ToolResult(sh, <<[requests |-> <<[deleteSheet |-> [sheetId |-> "None"]]>>]>>,
                             MutatingToolHandlers("HttpError"), 0)
             ELSE LET request_body == DeleteSheetBody(list[found].properties.sheetId)
                  IN  IF failUpdate # "none"
                      THEN ToolResult(sh, <<request_body>>,
                                      MutatingToolHandlers(failUpdate), 0)
                      ELSE ToolResult(BatchUpdate(sh, request_body, 0),
                                      <<request_body>>,
                                      Return("dict", BatchUpdateResponse(request_body)),
                                      0)

\* delete_sheet(ctx, sheet_name); failGet and failUpdate are what the two
\* execute() calls do, omit whether empty metadata lacks the 'sheets' key.
delete_sheet(sh, sheet_name, failGet, omit, failUpdate) ==
    IF failGet # "none"
    THEN ToolResult(sh, << >>, MutatingToolHandlers(failGet), 0)
    ELSE LET sheet_metadata == Get(sh, omit)
             list == DictGet(sheet_metadata, "sheets", << >>)
             found == ScanForTitle(list, sheet_name)
         IN  IF found = 0
             THEN ToolResult(sh, << >>, Return("str", NotFoundMessage(sheet_name)), 0)
             ELSE LET request_body == DeleteSheetBody(list[found].properties.sheetId)
                  IN  IF failUpdate # "none"
                      THEN ToolResult(sh, <<request_body>>,
                                      MutatingToolHandlers(failUpdate), 0)
                      ELSE ToolResult(BatchUpdate(sh, request_body, 0),
                                      <<request_body>>,
                                      Return("dict", BatchUpdateResponse(request_body)),
                                      0)

\* A plausible slip: the projection built back to front.
SheetListReversed(list) ==
    [i \in 1..Len(list) |-> [id |-> list[Len(list) + 1 - i].properties.sheetId,
                             name |-> list[Len(list) + 1 - i].properties.title]]

\* The list comprehension of list_sheets.
SheetList(list) ==
    [i \in 1..Len(list) |-> [id |-> list[i].properties.sheetId,
                             name |-> list[i].properties.title]]

\* list_sheets(ctx)
list_sheets(sh, fail, omit) ==
    IF fail # "none"
    THEN ToolResult(sh, << >>, ListToolHandlers(fail), 0)
    ELSE LET sheet_metadata == Get(sh, omit)
             list == DictGet(sheet_metadata, "sheets", << >>)
         IN  IF list = << >>
             THEN ToolResult(sh, << >>, Return("list", << >>), 0)
             ELSE ToolResult(sh, << >>, Return("list", SheetList(list)), 0)

\* ------------------------------------------------------ the agent runtime
Tools == {"add_sheet", "delete_sheet", "list_sheets"}

\* What the runtime does with a tool's outcome: a return value goes back to
\* the model and resets the tool's retry counter; ModelRetry is counted
\* against the tool's retries and, past them, ends the run with
\* UnexpectedModelBehavior; any other exception ends the run as it is.
AfterTool(tool, out, retry) ==
    IF out.kind = "return"
    THEN [pc |-> pc, escaped |-> escaped, retry |-> [retry EXCEPT ![tool] = 0]]
    ELSE IF out.type = "ModelRetry"
    THEN IF retry[tool] + 1 > TOOL_RETRIES
         THEN [pc |-> "crashed", escaped |-> "UnexpectedModelBehavior",
               retry |-> [retry EXCEPT ![tool] = @ + 1]]
         ELSE [pc |-> pc, escaped |-> escaped,
               retry |-> [retry EXCEPT ![tool] = @ + 1]]
    ELSE [pc |-> "crashed", escaped |-> out.type, retry |-> retry]

\* response.all_messages(): the history the run was given, then the run's own.
AllMessages(r, data) ==
    Append(r.message_history, [user_prompt |-> r.user_prompt, data |-> data])

\* ------------------------------------------------------------- the session
InitialDeps == [sheets_service |-> "service", spreadsheet_id |-> SPREADSHEET_ID]

NoHistory == << >>

NoCall == [tool |-> "none", sheet_name |-> "", before |-> << >>,
           failure |-> "none", reqs |-> << >>,
           out |-> Return("none", << >>), attempt |-> 0]

NoPrev == [tool |-> "none", sheet_name |-> "", failure |-> "none", matches |-> 0]

Running == pc \in {"first_run", "loop_run"}

\* How many sheets of sh are titled name.
Matches(sh, name) ==
    Cardinality({i \in 1..Len(sh) : sh[i].properties.title = name})

PyStr(b) == IF b THEN "True" ELSE "False"

\* print(f'Sheet agent: {response.data}')
FirstTurnLine(data) ==
    <<"Sheet agent: ", "request_status=", PyStr(data.request_status),
      " result_details=", "'", data.result_details, "'">>

\* print(f'Sheets agent: {response.data.result_details}')
LoopTurnLine(data) == <<"Sheets agent: ", data.result_details>>

\* A plausible slip: the loop's run_sync called like the first one, with no
\* message_history.
LoopHistoryDropped(resp) == NoHistory

\* message_history=response.all_messages()
LoopHistory(resp) == resp.all_messages

Init ==
    /\ sheets \in InitialSheets
    /\ deps = InitialDeps
    /\ pc = "first_input"
    /\ turn = 0
    /\ prompt = << >>
    /\ run = [user_prompt |-> << >>, deps |-> InitialDeps, message_history |-> NoHistory]
    /\ response = [data |-> [request_status |-> FALSE, result_details |-> ""],
                   all_messages |-> << >>]
    /\ stdout = << >>
    /\ current_retry = [t \in Tools |-> 0]
    /\ ncalls = 0
    /\ lastCall = NoCall
    /\ prevCall = NoPrev
    /\ completed = << >>
    /\ nreads = 0
    /\ nruns = 0
    /\ escaped = "none"

\* A line is read and, unless it is the exit sentinel, run_sync starts.
ReadLine(line, running, history) ==
    /\ prompt' = line
    /\ nreads' = nreads + 1
    /\ IF IsExitSentinel(line)
       THEN /\ pc' = "exited"
            /\ escaped' = "SystemExit"
            /\ UNCHANGED <<run, current_retry, nruns>>
       ELSE /\ pc' = running
            /\ nruns' = nruns + 1
            /\ run' = [user_prompt |-> Strip(line), deps |-> deps,
                       message_history |-> history]
            /\ current_retry' = [t \in Tools |-> 0]
            /\ UNCHANGED escaped
    /\ UNCHANGED <<sheets, deps, turn, response, stdout, ncalls, lastCall,
                   prevCall, completed>>

\* Lines 148-152: the first turn.
FirstInput(line) ==
    /\ pc = "first_input"
    /\ ReadLine(line, "first_run", NoHistory)

\* Lines 156-159: a later turn.
LoopInput(line) ==
    /\ pc = "loop_input"
    /\ turn < MaxTurns \/ IsExitSentinel(line)
    /\ ReadLine(line, "loop_run", LoopHistory(response))

\* The runtime calls a tool; r is what the tool did.
CallTool(tool, sheet_name, failure, r) ==
    LET a == AfterTool(tool, r.out, current_retry)
    IN  /\ Running
        /\ ncalls < MaxCalls
        /\ sheets' = r.sheets
        /\ ncalls' = ncalls + 1
        /\ lastCall' = [tool |-> tool, sheet_name |-> sheet_name,
                        before |-> sheets, failure |-> failure,
                        reqs |-> r.reqs, out |-> r.out,
                        attempt |-> current_retry[tool]]
        /\ prevCall' = [tool |-> lastCall.tool, sheet_name |-> lastCall.sheet_name,
                        failure |-> lastCall.failure,
                        matches |-> Matches(lastCall.before, lastCall.sheet_name)]
        /\ pc' = a.pc
        /\ escaped' = a.escaped
        /\ current_retry' = a.retry
        /\ UNCHANGED <<deps, turn, prompt, run, response, stdout, completed,
                       nreads, nruns>>

CallAddSheet(sheet_name, fail, newId) ==
    CallTool("add_sheet", sheet_name, fail, add_sheet(sheets, sheet_name, fail, newId))

CallDeleteSheet(sheet_name, failGet, omit, failUpdate) ==
    CallTool("delete_sheet", sheet_name,
             IF failGet # "none" THEN failGet
             ELSE IF Matches(sheets, sheet_name) = 0 THEN "none"
             ELSE failUpdate,
             delete_sheet(sheets, sheet_name, failGet, omit, failUpdate))

CallListSheets(fail, omit) ==
    CallTool("list_sheets", "", fail, list_sheets(sheets, fail, omit))

\* run_sync returns the turn's Structured Result, and the loop prints it.
RunReturns(data, line, next) ==
    /\ response' = [data |-> data, all_messages |-> AllMessages(run, data)]
    /\ stdout' = Append(stdout, line)
    /\ completed' = Append(completed, [user_prompt |-> run.user_prompt, data |-> data])
    /\ turn' = turn + 1
    /\ pc' = next
    /\ UNCHANGED <<sheets, deps, prompt, run, current_retry, ncalls, lastCall,
                   prevCall, nreads, nruns, escaped>>

\* Lines 152-153
FirstReturn(data) ==
    /\ pc = "first_run"
    /\ RunReturns(data, FirstTurnLine(data), "loop_input")

\* Lines 159-160
LoopReturn(data) ==
    /\ pc = "loop_run"
    /\ RunReturns(data, LoopTurnLine(data), "loop_input")

Next ==
    \/ \E line \in Lines : FirstInput(line)
    \/ \E line \in Lines : LoopInput(line)
    \/ \E n \in Names, f \in Failures, id \in FreshIds(sheets) : CallAddSheet(n, f, id)
    \/ \E n \in Names, f \in Failures, o \in OmitChoices(sheets) :
          \E g \in UpdateFailures(sheets, n, f) : CallDeleteSheet(n, f, o, g)
    \/ \E f \in Failures, o \in OmitChoices(sheets) : CallListSheets(f, o)
    \/ \E d \in Results : FirstReturn(d)
    \/ \E d \in Results : LoopReturn(d)

Spec == Init /\ [][Next]_vars

\* ---------------------------------------------------------------- claims
IsMutatingCall == lastCall.tool \in {"add_sheet", "delete_sheet"}

IsModelRetry(out) == out.kind = "raise" /\ out.type = "ModelRetry"

\* seq without its i-th element
RemoveAt(seq, i) == SubSeq(seq, 1, i - 1) \o SubSeq(seq, i + 1, Len(seq))

\* The position of the first sheet of sh titled name (there is one).
FirstTitled(sh, name) ==
    CHOOSE i \in 1..Len(sh) :
        /\ sh[i].properties.title = name
        /\ \A j \in 1..(i - 1) : sh[j].properties.title # name

\* Every spelling of "exit" in upper and lower case letters.
ExitSpellings ==
    {<<a, b, c, d>> : a \in {"e", "E"}, b \in {"x", "X"},
                      c \in {"i", "I"}, d \in {"t", "T"}}

\* C1: a transport (SSL) failure of the spreadsheet call of add_sheet or
\* delete_sheet makes the tool raise ModelRetry while the tool's retries
\* are not used up; only then is the failure returned as a string.
C1_TransportFailureRetried ==
    (IsMutatingCall /\ lastCall.failure = "SSLError"
        /\ lastCall.attempt < TOOL_RETRIES)
    => IsModelRetry(lastCall.out)

\* C2 as written: with no service failure, two delete_sheet(X) in a row on
\* a spreadsheet that holds a sheet titled X end with the "already deleted
\* or does not exist" message; and a delete_sheet that finds no sheet titled
\* X sends no batch-update and leaves the sheet list as it was.
C2_SecondDeleteNotFound ==
    /\ (/\ prevCall.tool = "delete_sheet" /\ prevCall.failure = "none"
        /\ prevCall.matches >= 1
        /\ lastCall.tool = "delete_sheet" /\ lastCall.failure = "none"
        /\ lastCall.sheet_name = prevCall.sheet_name)
       => (/\ lastCall.out.kind = "return" /\ lastCall.out.type = "str"
           /\ lastCall.out.value = <<"Sheet ", lastCall.sheet_name,
                                     " is already deleted or does not exist">>)
    /\ (/\ lastCall.tool = "delete_sheet" /\ lastCall.failure = "none"
        /\ Matches(lastCall.before, lastCall.sheet_name) = 0)
       => (lastCall.reqs = << >> /\ sheets = lastCall.before)

\* C2 amended: the same, for a spreadsheet that holds exactly one sheet
\* titled X before the first of the two calls.
C2_SecondDeleteNotFoundUniqueTitle ==
    /\ (/\ prevCall.tool = "delete_sheet" /\ prevCall.failure = "none"
        /\ prevCall.matches = 1
        /\ lastCall.tool = "delete_sheet" /\ lastCall.failure = "none"
        /\ lastCall.sheet_name = prevCall.sheet_name)
       => (/\ lastCall.out.kind = "return" /\ lastCall.out.type = "str"
           /\ lastCall.out.value = <<"Sheet ", lastCall.sheet_name,
                                     " is already deleted or does not exist">>
           /\ lastCall.reqs = << >> /\ sheets = lastCall.before)
    /\ (/\ lastCall.tool = "delete_sheet" /\ lastCall.failure = "none"
        /\ Matches(lastCall.before, lastCall.sheet_name) = 0)
       => (/\ lastCall.out.kind = "return" /\ lastCall.out.type = "str"
           /\ lastCall.reqs = << >> /\ sheets = lastCall.before)

\* C2 witness: a second delete_sheet("X") right after one that deleted the
\* only sheet titled X.
C2_Witness ==
    /\ prevCall.tool = "delete_sheet" /\ prevCall.failure = "none"
    /\ prevCall.matches = 1
    /\ lastCall.tool = "delete_sheet" /\ lastCall.failure = "none"
    /\ lastCall.sheet_name = prevCall.sheet_name
    /\ lastCall.out.type = "str"

C4_ListProjectsInOrder ==
    (lastCall.tool = "list_sheets" /\ lastCall.failure = "none")
    => /\ lastCall.out.kind = "return" /\ lastCall.out.type = "list"
       /\ Len(lastCall.out.value) = Len(lastCall.before)
       /\ \A i \in 1..Len(lastCall.before) :
             lastCall.out.value[i] =
                 [id |-> lastCall.before[i].properties.sheetId,
                  name |-> lastCall.before[i].properties.title]
       /\ lastCall.reqs = << >>
       /\ sheets = lastCall.before
       /\ current_retry["list_sheets"] = 0

\* C4 witness: list_sheets returned two descriptors.
C4_Witness ==
    /\ lastCall.tool = "list_sheets" /\ lastCall.failure = "none"
    /\ Len(lastCall.before) = 2
    /\ lastCall.out.type = "list"
    /\ Len(lastCall.out.value) = 2

\* C5: any failure while list_sheets runs leaves it as ModelRetry: it never
\* returns an error string and lets no other exception escape.
C5_ListFailureIsRetry ==
    (lastCall.tool = "list_sheets" /\ lastCall.failure # "none")
    => IsModelRetry(lastCall.out)

\* C6: a line that spells "exit" in any letter case ends the session at
\* once, on the first turn as on a later one: run_sync is not called for
\* it, and nothing (no tool, no run, no read) happens after it.
C6_ExitEndsSession ==
    [][/\ (nreads' = nreads + 1 /\ prompt' \in ExitSpellings)
          => (/\ pc' = "exited"
              /\ nruns' = nruns
              /\ ncalls' = ncalls
              /\ sheets' = sheets
              /\ lastCall' = lastCall)
       /\ pc # "exited"]_vars

\* C6 witness: the session ended on a mixed-case "ExiT" typed after a turn
\* in which tools ran.
C6_Witness ==
    /\ pc = "exited"
    /\ prompt = <<"E", "x", "i", "T">>
    /\ turn >= 1
    /\ ncalls >= 1
    /\ nruns = nreads - 1

\* C7: add_sheet(N) that succeeds on a spreadsheet with no sheet titled N
\* sends exactly one batch-update with exactly one addSheet request of
\* title N; afterwards exactly one sheet is titled N and the sheets present
\* before are unchanged, in place.
C7_AddAppendsOneSheet ==
    (/\ lastCall.tool = "add_sheet" /\ lastCall.failure = "none"
     /\ Matches(lastCall.before, lastCall.sheet_name) = 0)
    => /\ lastCall.reqs =
            <<[requests |-> <<[addSheet |->
                [properties |-> [title |-> lastCall.sheet_name]]]>>]>>
       /\ Matches(sheets, lastCall.sheet_name) = 1
       /\ Len(sheets) = Len(lastCall.before) + 1
       /\ SubSeq(sheets, 1, Len(lastCall.before)) = lastCall.before

\* C7 witness: add_sheet added a title that was absent, next to a sheet of
\* another title.
C7_Witness ==
    /\ lastCall.tool = "add_sheet" /\ lastCall.failure = "none"
    /\ Matches(lastCall.before, lastCall.sheet_name) = 0
    /\ Len(lastCall.before) >= 1
    /\ Matches(sheets, lastCall.sheet_name) = 1

\* C8: for every turn, the first included, what the session loop prints
\* after its speaker label is the detail message of the turn's result.
C8_PrintsDetailMessage ==
    \A i \in 1..Len(stdout) :
        Tail(stdout[i]) = <<completed[i].data.result_details>>

\* C9: a failure of a spreadsheet call inside a tool never ends the session:
\* add_sheet and delete_sheet return "An error occurred: ..." for a failure
\* that is not transient, no tool lets an exception other than ModelRetry
\* escape, and the session is not ended by the failure.
C9_ToolFailureNeverEndsSession ==
    /\ (IsMutatingCall /\ lastCall.failure = "HttpError")
       => (/\ lastCall.out.kind = "return" /\ lastCall.out.type = "str"
           /\ lastCall.out.value = <<"An error occurred: ", "HttpError">>)
    /\ lastCall.out.kind = "raise" => lastCall.out.type = "ModelRetry"
    /\ lastCall.failure # "none" => pc # "crashed"

=============================================================================
